---- MODULE Spec2Model ----
(***************************************************************************)
(* helios: an inverted index over the text files of a directory tree, a    *)
(* terminal front end (src/src/main.rs) and an HTTP front end              *)
(* (src/server/src/main.rs over src/src/lib.rs).                           *)
(*                                                                         *)
(* Text the code takes apart (tokens, index keys, the query buffer, paths)  *)
(* is a sequence of characters; text it only puts together and passes on   *)
(* (file names in the index, result lines) is a TLA+ string.               *)
(*                                                                         *)
(* A Vec<String> is held by its runs: the sequence of [item, count] with    *)
(* count >= 1 and different items in neighbouring runs, so that a list of  *)
(* 2^16 equal lines is one run.  A file is held by its lines, each with    *)
(* the number of times it stands there in a row; a line ends in "\n",      *)
(* which is whitespace, so no token reaches over the end of a line.        *)
(* A character is a one-element TLA+ string, except the characters that    *)
(* have no ASCII spelling:                                                 *)
(*   "U+0130"  LATIN CAPITAL LETTER I WITH DOT ABOVE                       *)
(*   "U+0307"  COMBINING DOT ABOVE                                         *)
(*   "U+FFFD"  REPLACEMENT CHARACTER                                       *)
(*   "0xFF"    a byte that is not valid UTF-8                              *)
(***************************************************************************)
EXTENDS Integers, Sequences, FiniteSets, TLC

VARIABLES
    tree,           \* the directory tree on disk: path -> file (read only)
    \* ---- the terminal program, src/src/main.rs
    pc,             \* position of main: "walk", "index", "loop", "exited", "panicked"
    files,          \* the sorted Vec<PathBuf> the for loop still has to consume
    index,          \* HashMap<String, Vec<String>>
    stderr,         \* the diagnostics written by eprintln!
    query,          \* String
    results,        \* Vec<String>
    mode,           \* Mode
    scroll,         \* u16
    \* ---- the HTTP server, src/server/src/main.rs with src/src/lib.rs
    server_pc,      \* "walk", "index", "serving"
    engine_files,   \* files of SearchEngine::new still to consume
    engine_index,   \* SearchEngine.index
    server_stderr,  \* the diagnostics written by the server process
    request,        \* params.q of the last request served: <<>> or <<q>>
    response,       \* the Json body returned for it: <<>> or <<lines>>
    tasks           \* the search_handler calls in flight, one per worker

vars == <<tree, pc, files, index, stderr, query, results, mode, scroll,
          server_pc, engine_files, engine_index, server_stderr, request, response,
          tasks>>

terminal_vars == <<pc, files, index, stderr, query, results, mode, scroll>>

server_vars ==
    <<server_pc, engine_files, engine_index, server_stderr, request, response, tasks>>

session_vars == <<query, results, mode, scroll>>

-----------------------------------------------------------------------------
(* Bounds of the model *)

\* longest query buffer the session is driven to
MaxQuery == 2

\* longest q parameter of an HTTP request
MaxRequest == 2

-----------------------------------------------------------------------------
(* Small helpers *)

Min(S) == CHOOSE x \in S : \A y \in S : x <= y

Max(S) == CHOOSE x \in S : \A y \in S : x >= y

Sign(n) == IF n < 0 THEN -1 ELSE IF n > 0 THEN 1 ELSE 0

\* the k-th smallest element of a set of integers
Nth(S, k) == CHOOSE i \in S : Cardinality({j \in S : j < i}) = k - 1

StringsUpTo(chars, n) == UNION {[1..k -> chars] : k \in 0..n}

RECURSIVE Flatten(_)
Flatten(ss) == IF ss = <<>> THEN <<>> ELSE Head(ss) \o Flatten(Tail(ss))

\* the Vec of n times x
Repeat(x, n) == IF n = 0 THEN <<>> ELSE <<[item |-> x, count |-> n]>>

\* Vec::len
RECURSIVE vec_len(_)
vec_len(v) == IF v = <<>> THEN 0 ELSE Head(v).count + vec_len(Tail(v))

\* the elements of a Vec one by one
Elements(v) == Flatten([i \in 1..Len(v) |-> [j \in 1..v[i].count |-> v[i].item]])

\* the characters of s written out as one string
RECURSIVE Str(_)
Str(s) == IF s = <<>> THEN "" ELSE Head(s) \o Str(Tail(s))

\* the maximal runs of s that hold no character of seps, in order
Runs(s, seps) ==
    LET starts == {i \in 1..Len(s) : s[i] \notin seps /\ (i = 1 \/ s[i-1] \in seps)}
        EndOf(i) == Min({j \in i..Len(s) : j = Len(s) \/ s[j+1] \in seps})
    IN  [k \in 1..Cardinality(starts) |->
            SubSeq(s, Nth(starts, k), EndOf(Nth(starts, k)))]

-----------------------------------------------------------------------------
(* Characters and strings of the standard library, as the code uses them *)

\* char::is_alphanumeric
is_alphanumeric(c) == c \in {"a", "b", "c", "i", "j", "k", "q", "s", "I", "U+0130"}

\* char::is_whitespace
is_whitespace(c) == c \in {" "}

\* the lowercase mapping of one character: a string, not always one character
LowerChar(c) ==
    IF c = "I" THEN <<"i">>
    ELSE IF c = "U+0130" THEN <<"i", "U+0307">>
    ELSE <<c>>

\* str::to_lowercase
RECURSIVE to_lowercase(_)
to_lowercase(s) ==
    IF s = <<>> THEN <<>> ELSE LowerChar(Head(s)) \o to_lowercase(Tail(s))

\* str::split_whitespace, on the text of one line
split_whitespace(text) == Runs(text, {c \in {" "} : is_whitespace(c)})

\* word.trim_matches(|c: char| !c.is_alphanumeric())
trim_matches(word) ==
    LET keep == {i \in 1..Len(word) : is_alphanumeric(word[i])}
    IN  IF keep = {} THEN <<>> ELSE SubSeq(word, Min(keep), Max(keep))

\* the byte a path character is stored as
Byte(c) ==
    CASE c = "-" -> 45
      [] c = "." -> 46
      [] c = "/" -> 47
      [] c = "a" -> 97
      [] c = "b" -> 98

\* Ord of OsStr: bytewise lexicographic
CmpBytes(x, y) ==
    LET n == IF Len(x) < Len(y) THEN Len(x) ELSE Len(y)
        D == {i \in 1..n : x[i] # y[i]}
    IN  IF D = {} THEN Sign(Len(x) - Len(y))
        ELSE IF Byte(x[Min(D)]) < Byte(y[Min(D)]) THEN -1 ELSE 1

\* Path::components of a relative path: the names between separators; empty
\* names and every "." but a leading one are dropped
components(p) ==
    LET r == Runs(p, {"/"})
        keep == {i \in 1..Len(r) : i = 1 \/ r[i] # <<".">>}
    IN  [k \in 1..Cardinality(keep) |-> r[Nth(keep, k)]]

\* Ord of PathBuf: the component sequences compared lexicographically
PathCmp(p, q) ==
    LET cp == components(p)
        cq == components(q)
        n == IF Len(cp) < Len(cq) THEN Len(cp) ELSE Len(cq)
        D == {i \in 1..n : cp[i] # cq[i]}
    IN  IF D = {} THEN Sign(Len(cp) - Len(cq))
        ELSE CmpBytes(cp[Min(D)], cq[Min(D)])

\* Path::display().to_string(): lossy, bytes that are no UTF-8 become U+FFFD
display(p) == Str([i \in 1..Len(p) |-> IF p[i] = "0xFF" THEN "U+FFFD" ELSE p[i]])

\* x placed into the sorted s behind everything that is not greater than it
SortInsert(x, s) ==
    LET k == Cardinality({i \in 1..Len(s) : PathCmp(s[i], x) <= 0})
    IN  SubSeq(s, 1, k) \o <<x>> \o SubSeq(s, k + 1, Len(s))

\* a build that forgets files.sort()
sort_forgotten(s) == s

\* files.sort(): the stable sort of a Vec<PathBuf> by Ord of PathBuf
RECURSIVE sort(_)
sort(s) ==
    IF s = <<>> THEN <<>> ELSE SortInsert(s[Len(s)], sort(SubSeq(s, 1, Len(s) - 1)))

-----------------------------------------------------------------------------
(* The directory tree *)

Root == <<".">>

PathAB == <<".", "/", "a", "/", "b">>

PathADashB == <<".", "/", "a", "-", "b">>

PathB == <<".", "/", "b">>

FilePaths == {PathAB, PathADashB, PathB}

NoFile == [present |-> FALSE, lines |-> <<>>]

File(lines) == [present |-> TRUE, lines |-> lines]

Line(text, times) == [text |-> text, times |-> times]

\* a file that is no UTF-8 text
Binary == <<Line(<<"0xFF">>, 1)>>

\* "I, i": the word i twice, once capitalised and with punctuation
TextII == <<Line(<<"I", ",", " ", "i">>, 1)>>

\* "q i"
TextQI == <<Line(<<"q", " ", "i">>, 1)>>

\* ", q": a token of punctuation only, then a word
TextCommaQ == <<Line(<<",", " ", "q">>, 1)>>

\* "i q" on two lines
TextIQTwice == <<Line(<<"i", " ", "q">>, 2)>>

\* the one word U+0130, whose lowercase form ends in the combining U+0307
TextDotted == <<Line(<<"U+0130">>, 1)>>

FileOptions ==
    {NoFile, File(Binary), File(TextII), File(TextQI), File(TextCommaQ), File(TextIQTwice),
     File(TextDotted)}

\* every tree the builds are checked on
TreeSet == [FilePaths -> FileOptions]

\* the trees the interactive session is checked on
SessionTrees ==
    { (PathAB :> File(TextII)) @@ (PathADashB :> File(TextQI)) @@ (PathB :> File(Binary)) }

PresentFiles(t) == {p \in FilePaths : t[p].present}

\* d is a proper ancestor directory of p
Under(d, p) ==
    /\ Len(d) < Len(p)
    /\ SubSeq(p, 1, Len(d)) = d
    /\ p[Len(d) + 1] = "/"

Ancestors(p) == {SubSeq(p, 1, i - 1) : i \in {j \in 1..Len(p) : p[j] = "/"}}

\* what WalkDir yields: the root, every directory in use, every file
Entries(t) ==
    {[path |-> p, is_file |-> TRUE] : p \in PresentFiles(t)}
    \cup {[path |-> d, is_file |-> FALSE] :
            d \in {Root} \cup UNION {Ancestors(p) : p \in PresentFiles(t)}}

\* the orders WalkDir can yield them in: depth first, a directory before its
\* contents and its contents together, siblings in the order of the file system
WalkOrders(t) ==
    LET E == Entries(t)
        n == Cardinality(E)
    IN  {w \in [1..n -> E] :
            /\ \A i, j \in 1..n : i # j => w[i] # w[j]
            /\ \A i, j \in 1..n :
                  Under(w[i].path, w[j].path) =>
                      /\ i < j
                      /\ \A k \in (i+1)..j : Under(w[i].path, w[k].path)}

\* .filter(|e| e.file_type().is_file()).map(|e| e.path().to_path_buf()).collect()
collect_files(w) ==
    LET keep == {i \in 1..Len(w) : w[i].is_file}
    IN  [k \in 1..Cardinality(keep) |-> w[Nth(keep, k)].path]

\* Path::is_file
is_file(t, p) == p \in FilePaths /\ t[p].present

\* fs::read_to_string succeeds on valid UTF-8 only
read_ok(t, p) ==
    \A l \in 1..Len(t[p].lines) :
        \A i \in 1..Len(t[p].lines[l].text) : t[p].lines[l].text[i] # "0xFF"

\* the contents fs::read_to_string returns, line by line
read_to_string(t, p) == t[p].lines

-----------------------------------------------------------------------------
(* The index *)

EmptyIndex == [w \in {} |-> <<>>]

\* a push that records a file once per word
push_once(idx, clean, file_name, n) ==
    IF clean \in DOMAIN idx
    THEN IF idx[clean][Len(idx[clean])].item = file_name THEN idx
         ELSE [idx EXCEPT ![clean] = Append(@, [item |-> file_name, count |-> 1])]
    ELSE idx @@ (clean :> Repeat(file_name, 1))

\* index.entry(clean).or_default().push(file_name.clone()), n times
push(idx, clean, file_name, n) ==
    IF clean \in DOMAIN idx
    THEN LET v == idx[clean]
             last == v[Len(v)]
         IN  IF last.item = file_name
             THEN [idx EXCEPT ![clean][Len(v)].count = @ + n]
             ELSE [idx EXCEPT ![clean] = Append(@, [item |-> file_name, count |-> n])]
    ELSE idx @@ (clean :> Repeat(file_name, n))

\* the word loop of SearchEngine::new over a line that stands there `times`
\* times: every push made for one file appends the same file_name, and the
\* lists of different words do not touch, so `times` passes of one push per
\* token leave what one pass of `times` pushes per token leaves
RECURSIVE index_words(_, _, _, _)
index_words(idx, words, file_name, times) ==
    IF words = <<>> THEN idx
    ELSE LET clean == to_lowercase(trim_matches(Head(words)))
         IN  index_words(IF clean # <<>> THEN push(idx, clean, file_name, times) ELSE idx,
                         Tail(words), file_name, times)

\* the word loop of SearchEngine::new over the contents of a file
RECURSIVE index_contents(_, _, _)
index_contents(idx, contents, file_name) ==
    IF contents = <<>> THEN idx
    ELSE index_contents(index_words(idx, split_whitespace(Head(contents).text),
                                    file_name, Head(contents).times),
                        Tail(contents), file_name)

\* a word loop of main that forgets to_lowercase
RECURSIVE main_index_words_verbatim(_, _, _, _)
main_index_words_verbatim(idx, words, file_name, times) ==
    IF words = <<>> THEN idx
    ELSE LET clean == trim_matches(Head(words))
         IN  main_index_words_verbatim(
                 IF clean # <<>> THEN push(idx, clean, file_name, times) ELSE idx,
                 Tail(words), file_name, times)

\* the word loop of main over a line that stands there `times` times
RECURSIVE main_index_words(_, _, _, _)
main_index_words(idx, words, file_name, times) ==
    IF words = <<>> THEN idx
    ELSE LET clean == to_lowercase(trim_matches(Head(words)))
         IN  main_index_words(IF clean # <<>> THEN push(idx, clean, file_name, times) ELSE idx,
                              Tail(words), file_name, times)

\* the word loop of main over the contents of a file
RECURSIVE main_index_contents(_, _, _)
main_index_contents(idx, contents, file_name) ==
    IF contents = <<>> THEN idx
    ELSE main_index_contents(main_index_words(idx, split_whitespace(Head(contents).text),
                                              file_name, Head(contents).times),
                             Tail(contents), file_name)

\* the line eprintln! writes for a file it skips
SkipDiagnostic(file_path) ==
    [text |-> "[INFO] Skipping non-text file:", path |-> display(file_path)]

\* format!("'{}' found in {}", q, f)
FoundLine(q, f) == "'" \o Str(q) \o "' found in " \o f

\* format!("'{}' not found in any file", q)
NotFoundLine(q) == "'" \o Str(q) \o "' not found in any file"

\* files.iter().map(|f| format!("'{}' found in {}", q, f)).collect()
found_lines(q, fs) ==
    [i \in 1..Len(fs) |-> [item |-> FoundLine(q, fs[i].item), count |-> fs[i].count]]

\* a search that answers a miss with no line at all
search_miss_empty(idx, q_in) ==
    LET q == to_lowercase(q_in)
    IN  IF q \in DOMAIN idx THEN found_lines(q, idx[q]) ELSE <<>>

\* a search that trims the query the way the build trims a token
search_trimming(idx, q_in) ==
    LET q == to_lowercase(trim_matches(q_in))
    IN  IF q \in DOMAIN idx THEN found_lines(q, idx[q]) ELSE Repeat(NotFoundLine(q), 1)

\* SearchEngine::search
search(idx, q_in) ==
    LET q == to_lowercase(q_in)
    IN  IF q \in DOMAIN idx THEN found_lines(q, idx[q]) ELSE Repeat(NotFoundLine(q), 1)

\* a lookup that forgets query.to_lowercase()
main_lookup_verbatim(idx, buffer) ==
    IF buffer \in DOMAIN idx
    THEN found_lines(buffer, idx[buffer])
    ELSE Repeat(NotFoundLine(buffer), 1)

\* the lookup main runs on Enter
main_lookup(idx, buffer) ==
    LET q == to_lowercase(buffer)
    IN  IF q \in DOMAIN idx THEN found_lines(q, idx[q]) ELSE Repeat(NotFoundLine(q), 1)

-----------------------------------------------------------------------------
(* The terminal program: index build *)

\* what one pass of the for loop of main does to index
main_index_file(idx, t, file_path) ==
    IF is_file(t, file_path) /\ read_ok(t, file_path)
    THEN main_index_contents(idx, read_to_string(t, file_path), display(file_path))
    ELSE idx

\* what one pass of the for loop of main writes to stderr
main_diagnostics(err, t, file_path) ==
    IF is_file(t, file_path) /\ ~read_ok(t, file_path)
    THEN Append(err, SkipDiagnostic(file_path))
    ELSE err

\* WalkDir::new(&dir.path) ... .collect(); files.sort(); an entry WalkDir fails
\* on is dropped by filter_map(|e| e.ok()) (no such entry in these trees)
TerminalWalk ==
    /\ pc = "walk"
    /\ \E w \in WalkOrders(tree) : files' = sort(collect_files(w))
    /\ pc' = "index"
    /\ UNCHANGED <<tree, index, stderr, session_vars, server_vars>>

\* one pass of: for file_path in files
TerminalIndexFile ==
    /\ pc = "index"
    /\ files # <<>>
    /\ index' = main_index_file(index, tree, Head(files))
    /\ stderr' = main_diagnostics(stderr, tree, Head(files))
    /\ files' = Tail(files)
    /\ UNCHANGED <<tree, pc, session_vars, server_vars>>

-----------------------------------------------------------------------------
(* The terminal program: interactive session *)

\* the number of values of u16, the type of scroll
U16 == 65536

Char(c) == [code |-> "Char", c |-> c]

Key(code) == [code |-> code, c |-> ""]

KeyChars == {":", "q", "i", "I", "s", "c", "j", "k", ","}

\* the key events the session is driven with; Esc stands for every other key
Keys == {Char(c) : c \in KeyChars}
        \cup {Key("Backspace"), Key("Enter"), Key("Up"), Key("Down"), Key("Esc")}

\* a match that tries the arm of Char(c) before the arm of ':'
Arm_char_first(m, k) ==
    IF m = "Insert" /\ k.code = "Char" THEN "insert_char"
    ELSE IF m = "Insert" /\ k = Char(":") THEN "insert_colon"
    ELSE IF m = "Insert" /\ k.code = "Backspace" THEN "insert_backspace"
    ELSE IF m = "Insert" /\ k.code = "Enter" THEN "insert_enter"
    ELSE IF m = "Command" /\ k = Char("q") THEN "command_quit"
    ELSE IF m = "Command" /\ k = Char("i") THEN "command_insert"
    ELSE IF m = "Command" /\ k = Char("s") THEN "command_safe"
    ELSE IF m = "Safe" /\ k = Char("i") THEN "safe_insert"
    ELSE IF m = "Safe" /\ k = Char("c") THEN "safe_command"
    ELSE IF m = "Safe" /\ k = Char("q") THEN "safe_quit"
    ELSE IF m \in {"Command", "Safe"} /\ (k.code = "Down" \/ k = Char("j")) THEN "scroll_down"
    ELSE IF m \in {"Command", "Safe"} /\ (k.code = "Up" \/ k = Char("k")) THEN "scroll_up"
    ELSE "ignored"

\* match (mode, key.code): the first arm whose pattern matches
Arm(m, k) ==
    IF m = "Insert" /\ k = Char(":") THEN "insert_colon"
    ELSE IF m = "Insert" /\ k.code = "Char" THEN "insert_char"
    ELSE IF m = "Insert" /\ k.code = "Backspace" THEN "insert_backspace"
    ELSE IF m = "Insert" /\ k.code = "Enter" THEN "insert_enter"
    ELSE IF m = "Command" /\ k = Char("q") THEN "command_quit"
    ELSE IF m = "Command" /\ k = Char("i") THEN "command_insert"
    ELSE IF m = "Command" /\ k = Char("s") THEN "command_safe"
    ELSE IF m = "Safe" /\ k = Char("i") THEN "safe_insert"
    ELSE IF m = "Safe" /\ k = Char("c") THEN "safe_command"
    ELSE IF m = "Safe" /\ k = Char("q") THEN "safe_quit"
    ELSE IF m \in {"Command", "Safe"} /\ (k.code = "Down" \/ k = Char("j")) THEN "scroll_down"
    ELSE IF m \in {"Command", "Safe"} /\ (k.code = "Up" \/ k = Char("k")) THEN "scroll_up"
    ELSE "ignored"

\* the position main can be at once terminal.draw has run with scroll offset s:
\* the status bar evaluates (scroll + 1) in u16, which a build with overflow
\* checks stops with a panic and a build without them wraps to 0
DrawOutcomes(s) == IF s + 1 >= U16 THEN {"loop", "panicked"} ELSE {"loop"}

\* the redraw at the top of the next pass of the loop
Redraw == pc' \in DrawOutcomes(scroll')

\* enable_raw_mode ... let mut scroll: u16 = 0; and the first draw
StartSession ==
    /\ pc = "index"
    /\ files = <<>>
    /\ query' = <<>>
    /\ results' = <<>>
    /\ mode' = "Insert"
    /\ scroll' = 0
    /\ Redraw
    /\ UNCHANGED <<tree, files, index, stderr, server_vars>>

\* an Insert ':' arm that leaves the buffer as it is
InsertColon_keep(key) ==
    /\ pc = "loop"
    /\ Arm(mode, key) = "insert_colon"
    /\ mode' = "Command"
    /\ UNCHANGED <<query, results, scroll>>
    /\ Redraw
    /\ UNCHANGED <<tree, files, index, stderr, server_vars>>

\* an Insert ':' arm that is taken with an empty buffer only
InsertColon_empty_only(key) ==
    /\ pc = "loop"
    /\ Arm(mode, key) = "insert_colon"
    /\ query = <<>>
    /\ mode' = "Command"
    /\ UNCHANGED <<query, results, scroll>>
    /\ Redraw
    /\ UNCHANGED <<tree, files, index, stderr, server_vars>>

\* (Mode::Insert, KeyCode::Char(':'))
InsertColon(key) ==
    /\ pc = "loop"
    /\ Arm(mode, key) = "insert_colon"
    /\ mode' = "Command"
    /\ query' = <<>>
    /\ UNCHANGED <<results, scroll>>
    /\ Redraw
    /\ UNCHANGED <<tree, files, index, stderr, server_vars>>

\* (Mode::Insert, KeyCode::Char(c)) => query.push(c)
InsertChar(key) ==
    /\ pc = "loop"
    /\ Arm(mode, key) = "insert_char"
    /\ Len(query) < MaxQuery
    /\ query' = Append(query, key.c)
    /\ UNCHANGED <<mode, results, scroll>>
    /\ Redraw
    /\ UNCHANGED <<tree, files, index, stderr, server_vars>>

\* (Mode::Insert, KeyCode::Backspace) => query.pop()
InsertBackspace(key) ==
    /\ pc = "loop"
    /\ Arm(mode, key) = "insert_backspace"
    /\ query' = IF query = <<>> THEN <<>> ELSE SubSeq(query, 1, Len(query) - 1)
    /\ UNCHANGED <<mode, results, scroll>>
    /\ Redraw
    /\ UNCHANGED <<tree, files, index, stderr, server_vars>>

\* an Enter arm that forgets scroll = 0
InsertEnter_keep_scroll(key) ==
    /\ pc = "loop"
    /\ Arm(mode, key) = "insert_enter"
    /\ IF query # <<>>
       THEN results' = main_lookup(index, query)
       ELSE UNCHANGED results
    /\ UNCHANGED <<mode, query, scroll>>
    /\ Redraw
    /\ UNCHANGED <<tree, files, index, stderr, server_vars>>

\* (Mode::Insert, KeyCode::Enter)
InsertEnter(key) ==
    /\ pc = "loop"
    /\ Arm(mode, key) = "insert_enter"
    /\ IF query # <<>>
       THEN /\ results' = main_lookup(index, query)
            /\ scroll' = 0
       ELSE UNCHANGED <<results, scroll>>
    /\ UNCHANGED <<mode, query>>
    /\ Redraw
    /\ UNCHANGED <<tree, files, index, stderr, server_vars>>

\* (Mode::Command, KeyCode::Char('q')) => break
CommandQuit(key) ==
    /\ pc = "loop"
    /\ Arm(mode, key) = "command_quit"
    /\ pc' = "exited"
    /\ UNCHANGED <<tree, files, index, stderr, session_vars, server_vars>>

\* a Command 'i' arm that starts over with no results
CommandInsert_fresh(key) ==
    /\ pc = "loop"
    /\ Arm(mode, key) = "command_insert"
    /\ mode' = "Insert"
    /\ query' = <<>>
    /\ results' = <<>>
    /\ scroll' = 0
    /\ Redraw
    /\ UNCHANGED <<tree, files, index, stderr, server_vars>>

\* (Mode::Command, KeyCode::Char('i'))
CommandInsert(key) ==
    /\ pc = "loop"
    /\ Arm(mode, key) = "command_insert"
    /\ mode' = "Insert"
    /\ query' = <<>>
    /\ UNCHANGED <<results, scroll>>
    /\ Redraw
    /\ UNCHANGED <<tree, files, index, stderr, server_vars>>

\* (Mode::Command, KeyCode::Char('s'))
CommandSafe(key) ==
    /\ pc = "loop"
    /\ Arm(mode, key) = "command_safe"
    /\ mode' = "Safe"
    /\ UNCHANGED <<query, results, scroll>>
    /\ Redraw
    /\ UNCHANGED <<tree, files, index, stderr, server_vars>>

\* (Mode::Safe, KeyCode::Char('i'))
SafeInsert(key) ==
    /\ pc = "loop"
    /\ Arm(mode, key) = "safe_insert"
    /\ mode' = "Insert"
    /\ query' = <<>>
    /\ UNCHANGED <<results, scroll>>
    /\ Redraw
    /\ UNCHANGED <<tree, files, index, stderr, server_vars>>

\* (Mode::Safe, KeyCode::Char('c'))
SafeCommand(key) ==
    /\ pc = "loop"
    /\ Arm(mode, key) = "safe_command"
    /\ mode' = "Command"
    /\ UNCHANGED <<query, results, scroll>>
    /\ Redraw
    /\ UNCHANGED <<tree, files, index, stderr, server_vars>>

\* (Mode::Safe, KeyCode::Char('q')) => break
SafeQuit(key) ==
    /\ pc = "loop"
    /\ Arm(mode, key) = "safe_quit"
    /\ pc' = "exited"
    /\ UNCHANGED <<tree, files, index, stderr, session_vars, server_vars>>

\* results.len().saturating_sub(1) as u16
ScrollBound(len) == (IF len = 0 THEN 0 ELSE len - 1) % U16

\* Down or 'j' in Command or Safe:
\* if scroll < results.len().saturating_sub(1) as u16 { scroll += 1; }
ScrollDown(key) ==
    /\ pc = "loop"
    /\ Arm(mode, key) = "scroll_down"
    /\ UNCHANGED <<mode, query, results>>
    /\ IF scroll < ScrollBound(vec_len(results))
       THEN IF scroll + 1 < U16
            THEN scroll' = scroll + 1 /\ Redraw
            ELSE \/ pc' = "panicked" /\ UNCHANGED scroll
                 \/ scroll' = (scroll + 1) % U16 /\ Redraw
       ELSE UNCHANGED scroll /\ Redraw
    /\ UNCHANGED <<tree, files, index, stderr, server_vars>>

\* Up or 'k' in Command or Safe: scroll = scroll.saturating_sub(1)
ScrollUp(key) ==
    /\ pc = "loop"
    /\ Arm(mode, key) = "scroll_up"
    /\ scroll' = IF scroll = 0 THEN 0 ELSE scroll - 1
    /\ UNCHANGED <<mode, query, results>>
    /\ Redraw
    /\ UNCHANGED <<tree, files, index, stderr, server_vars>>

\* a catch-all arm that sends the view back to the first result
Ignored_reset(key) ==
    /\ pc = "loop"
    /\ Arm(mode, key) = "ignored"
    /\ scroll' = 0
    /\ UNCHANGED <<mode, query, results>>
    /\ Redraw
    /\ UNCHANGED <<tree, files, index, stderr, server_vars>>

\* _ => {}
Ignored(key) ==
    /\ pc = "loop"
    /\ Arm(mode, key) = "ignored"
    /\ UNCHANGED session_vars
    /\ Redraw
    /\ UNCHANGED <<tree, files, index, stderr, server_vars>>

\* one pass of the loop in which event::read() returns the key event `key`; a
\* pass whose poll times out or that reads an event that is no key only redraws
KeyEvent(key) ==
    \/ InsertColon(key)
    \/ InsertChar(key)
    \/ InsertBackspace(key)
    \/ InsertEnter(key)
    \/ CommandQuit(key)
    \/ CommandInsert(key)
    \/ CommandSafe(key)
    \/ SafeInsert(key)
    \/ SafeCommand(key)
    \/ SafeQuit(key)
    \/ ScrollDown(key)
    \/ ScrollUp(key)
    \/ Ignored(key)

-----------------------------------------------------------------------------
(* The HTTP server *)

\* what one pass of the for loop of SearchEngine::new does to index
new_index_file(idx, t, file_path) ==
    IF is_file(t, file_path) /\ read_ok(t, file_path)
    THEN index_contents(idx, read_to_string(t, file_path), display(file_path))
    ELSE idx

\* what one pass of the for loop of SearchEngine::new writes to stderr: the
\* if let has no else
new_diagnostics(err, t, file_path) == err

\* the for loop of SearchEngine::new over fs, from the index idx
RECURSIVE new_index_all(_, _, _)
new_index_all(idx, t, fs) ==
    IF fs = <<>> THEN idx
    ELSE new_index_all(new_index_file(idx, t, Head(fs)), t, Tail(fs))

\* the index a whole run of SearchEngine::new returns when WalkDir yields w
SearchEngine_new(t, w) == new_index_all(EmptyIndex, t, sort(collect_files(w)))

\* SearchEngine::new: WalkDir::new(path) ... .collect(); files.sort()
EngineWalk ==
    /\ server_pc = "walk"
    /\ \E w \in WalkOrders(tree) : engine_files' = sort(collect_files(w))
    /\ server_pc' = "index"
    /\ UNCHANGED <<tree, terminal_vars, engine_index, server_stderr, request, response,
                   tasks>>

\* SearchEngine::new: one pass of: for file_path in files
EngineIndexFile ==
    /\ server_pc = "index"
    /\ engine_files # <<>>
    /\ engine_index' = new_index_file(engine_index, tree, Head(engine_files))
    /\ server_stderr' = new_diagnostics(server_stderr, tree, Head(engine_files))
    /\ engine_files' = Tail(engine_files)
    /\ UNCHANGED <<tree, terminal_vars, server_pc, request, response, tasks>>

\* Self { index }, and main of the server starts to serve
Serve ==
    /\ server_pc = "index"
    /\ engine_files = <<>>
    /\ server_pc' = "serving"
    /\ UNCHANGED <<tree, terminal_vars, engine_files, engine_index, server_stderr,
                   request, response, tasks>>

\* the characters the q parameter is made of
RequestChars == {"i", "I", "q", ",", " "}

Requests == StringsUpTo(RequestChars, MaxRequest)

\* GET /search?q=...
search_handler(q) ==
    /\ server_pc = "serving"
    /\ request' = <<q>>
    /\ response' = <<search(engine_index, q)>>
    /\ UNCHANGED <<tree, terminal_vars, server_pc, engine_files, engine_index, server_stderr,
                   tasks>>

\* the workers of the runtime that run search_handler side by side
Handlers == {"worker-1", "worker-2"}

Idle == [pc |-> "idle", q |-> <<>>, results |-> <<>>]

\* the q parameters sent while several requests are in flight
ConcurrentRequests == StringsUpTo({"i", ","}, MaxRequest)

\* a worker takes a request: Query(params) is extracted, the body not yet run
HandlerCall(h, q) ==
    /\ server_pc = "serving"
    /\ tasks[h].pc \in {"idle", "replied"}
    /\ tasks' = [tasks EXCEPT ![h] = [pc |-> "called", q |-> q, results |-> <<>>]]
    /\ UNCHANGED <<tree, terminal_vars, server_pc, engine_files, engine_index, server_stderr,
                   request, response>>

\* a handler that remembers a query it could not answer by entering it in
\* the index
HandlerSearch_caching(h) ==
    /\ server_pc = "serving"
    /\ tasks[h].pc = "called"
    /\ tasks' = [tasks EXCEPT ![h].pc = "replied",
                              ![h].results = search(engine_index, tasks[h].q)]
    /\ engine_index' =
          IF to_lowercase(tasks[h].q) \in DOMAIN engine_index THEN engine_index
          ELSE engine_index @@ (to_lowercase(tasks[h].q) :> <<>>)
    /\ UNCHANGED <<tree, terminal_vars, server_pc, engine_files, server_stderr,
                   request, response>>

\* the body of search_handler on a worker: state.search(&params.q) through the
\* shared Arc<SearchEngine>, which it can only read, and Json(results)
HandlerSearch(h) ==
    /\ server_pc = "serving"
    /\ tasks[h].pc = "called"
    /\ tasks' = [tasks EXCEPT ![h].pc = "replied",
                              ![h].results = search(engine_index, tasks[h].q)]
    /\ UNCHANGED <<tree, terminal_vars, server_pc, engine_files, engine_index, server_stderr,
                   request, response>>

-----------------------------------------------------------------------------
(* Specifications *)

\* both programs before their first statement
Start ==
    /\ pc = "walk"
    /\ files = <<>>
    /\ index = EmptyIndex
    /\ stderr = <<>>
    /\ query = <<>>
    /\ results = <<>>
    /\ mode = "Insert"
    /\ scroll = 0
    /\ server_pc = "walk"
    /\ engine_files = <<>>
    /\ engine_index = EmptyIndex
    /\ server_stderr = <<>>
    /\ request = <<>>
    /\ response = <<>>
    /\ tasks = [h \in Handlers |-> Idle]

Init == tree \in SessionTrees /\ Start

InitAll == tree \in TreeSet /\ Start

\* the terminal program
Next ==
    \/ TerminalWalk
    \/ TerminalIndexFile
    \/ StartSession
    \/ \E key \in Keys : KeyEvent(key)

Spec == Init /\ [][Next]_vars

\* the HTTP server
NextServer ==
    \/ EngineWalk
    \/ EngineIndexFile
    \/ Serve
    \/ \E q \in Requests : search_handler(q)

SpecServer == InitAll /\ [][NextServer]_vars

\* the index builds of the two programs, side by side
NextBuild ==
    \/ TerminalWalk
    \/ TerminalIndexFile
    \/ StartSession
    \/ EngineWalk
    \/ EngineIndexFile
    \/ Serve

SpecBuild == InitAll /\ [][NextBuild]_vars

-----------------------------------------------------------------------------
(* The terminal program over a file that holds a word 2^16 times *)

\* the tree whose only file, ./b, holds the line "j" 2^16 times and then the
\* line "k" once more often
TreeOfMany ==
    (PathAB :> NoFile) @@ (PathADashB :> NoFile)
        @@ (PathB :> File(<<Line(<<"j">>, U16), Line(<<"k">>, U16 + 1)>>))

InitScroll == tree = TreeOfMany /\ Start

\* the keys this session is driven with: all of Keys but those that leave
\* Command or Safe mode for Insert mode
ScrollKeys == Keys \ {Char("i"), Char("I"), Char(",")}

NextScroll ==
    \/ TerminalWalk
    \/ TerminalIndexFile
    \/ StartSession
    \/ \E key \in ScrollKeys :
        \/ InsertColon(key)
        \/ InsertChar(key)
        \/ InsertBackspace(key)
        \/ InsertEnter(key)
        \/ CommandQuit(key)
        \/ CommandSafe(key)
        \/ SafeCommand(key)
        \/ SafeQuit(key)
        \/ ScrollDown(key)
        \/ ScrollUp(key)
        \/ Ignored(key)

SpecScroll == InitScroll /\ [][NextScroll]_vars

-----------------------------------------------------------------------------
(* The server answering requests side by side, next to a terminal session *)

\* the keys the session beside the server is driven with
ConcurrentKeys == {Char("i"), Char(":"), Key("Enter")}

NextConcurrent ==
    \/ TerminalWalk
    \/ TerminalIndexFile
    \/ StartSession
    \/ \E key \in ConcurrentKeys :
        \/ InsertColon(key)
        \/ InsertChar(key)
        \/ InsertEnter(key)
        \/ CommandInsert(key)
    \/ EngineWalk
    \/ EngineIndexFile
    \/ Serve
    \/ \E h \in Handlers, q \in ConcurrentRequests : HandlerCall(h, q)
    \/ \E h \in Handlers : HandlerSearch(h)

SpecConcurrent == Init /\ [][NextConcurrent]_vars

-----------------------------------------------------------------------------
(* What the trees hold, stated without the builds *)

Ascending(fs, Cmp(_, _)) == \A i, j \in 1..Len(fs) : i < j => Cmp(fs[i], fs[j]) < 0

\* fs lists every file of the tree once, ascending in the order Cmp
ListsAllFiles(fs, t, Cmp(_, _)) ==
    /\ Len(fs) = Cardinality(PresentFiles(t))
    /\ {fs[i] : i \in 1..Len(fs)} = PresentFiles(t)
    /\ Ascending(fs, Cmp)

\* the files of the tree in the order of Ord of PathBuf
PathOrder(t) ==
    CHOOSE fs \in [1..Cardinality(PresentFiles(t)) -> PresentFiles(t)] :
        Ascending(fs, PathCmp)

Unreadable(t) == {p \in PresentFiles(t) : ~read_ok(t, p)}

\* how often the tokens of a line normalise to the word w
RECURSIVE OccurrencesInLines(_, _)
OccurrencesInLines(ls, w) ==
    IF ls = <<>> THEN 0
    ELSE LET toks == split_whitespace(Head(ls).text)
         IN  Head(ls).times
                 * Cardinality({i \in 1..Len(toks) : to_lowercase(trim_matches(toks[i])) = w})
             + OccurrencesInLines(Tail(ls), w)

\* how often the tokens of file p normalise to the word w; the empty string
\* is no word
Occurrences(t, p, w) ==
    IF p \in Unreadable(t) \/ w = <<>> THEN 0 ELSE OccurrencesInLines(t[p].lines, w)

\* one file name per occurrence of w: files in path order, tokens in file order
ExpectedRefs(t, w) ==
    LET fs == PathOrder(t)
    IN  Flatten([k \in 1..Len(fs) |->
                    [j \in 1..Occurrences(t, fs[k], w) |-> display(fs[k])]])

\* the tokens of the readable files of the tree
TokensOf(t) ==
    UNION {UNION {{split_whitespace(t[p].lines[l].text)[i] :
                      i \in 1..Len(split_whitespace(t[p].lines[l].text))} :
                  l \in 1..Len(t[p].lines)} :
           p \in PresentFiles(t) \ Unreadable(t)}

\* the words that occur in the readable files of the tree
WordsOf(t) == {to_lowercase(trim_matches(tok)) : tok \in TokensOf(t)} \ {<<>>}

-----------------------------------------------------------------------------
(* Claims *)

\* C1: in every state of the session scroll lies in [0, max(0, len(results) - 1)],
\* whatever keys were received, also after a submission replaced results by a
\* shorter list.
C1_ScrollInBounds ==
    /\ scroll >= 0
    /\ scroll <= (IF Elements(results) = <<>> THEN 0 ELSE Len(Elements(results)) - 1)

\* C1 witness: the session has scrolled down to the last of several results
C1_Witness ==
    /\ pc = "loop"
    /\ mode = "Safe"
    /\ Len(Elements(results)) > 2
    /\ scroll = Len(Elements(results)) - 1

\* C2 as stated: both builds take the discovered files in the bytewise
\* lexicographic order of their path strings, whatever order the walk yielded.
C2_StringOrder ==
    [][ /\ (pc = "walk" /\ pc' = "index") => ListsAllFiles(files', tree, CmpBytes)
        /\ (server_pc = "walk" /\ server_pc' = "index")
              => ListsAllFiles(engine_files', tree, CmpBytes) ]_vars

\* C2 amended: both builds take the discovered files in the order of Ord of
\* PathBuf (component by component, each component bytewise), whatever order
\* the walk yielded.
C2_PathOrder ==
    [][ /\ (pc = "walk" /\ pc' = "index") => ListsAllFiles(files', tree, PathCmp)
        /\ (server_pc = "walk" /\ server_pc' = "index")
              => ListsAllFiles(engine_files', tree, PathCmp) ]_vars

\* C2 witness: a build is about to index ./a/b and then ./a-b, the two paths
\* whose string order and component order differ
C2_Witness ==
    /\ server_pc = "index"
    /\ Len(engine_files) >= 2
    /\ engine_files[1] = PathAB
    /\ engine_files[2] = PathADashB

\* C3: a word is an index key exactly if it occurs in a readable file, and a
\* query whose lowercase form is a key is answered with one line
\* "'<word>' found in <path>" per occurrence, nothing deduplicated: files in
\* the order the build took them, within a file one line per token.
C3_HitLines ==
    (server_pc = "serving" /\ request # <<>>) =>
        LET q == to_lowercase(request[1])
            refs == ExpectedRefs(tree, q)
        IN  /\ (q \in DOMAIN engine_index) <=> (refs # <<>>)
            /\ (q \in DOMAIN engine_index) =>
                  /\ response # <<>>
                  /\ Elements(response[1]) =
                        [i \in 1..Len(refs) |-> "'" \o Str(q) \o "' found in " \o refs[i]]

\* C3 witness: the query "I" is answered with two equal lines for ./a/b, where
\* the word occurs twice, and then one line for ./a-b
C3_Witness ==
    /\ request = << <<"I">> >>
    /\ response # <<>>
    /\ Elements(response[1]) =
          << "'i' found in ./a/b", "'i' found in ./a/b", "'i' found in ./a-b" >>

\* C4: a step that changes the mode to Insert or Command leaves the query
\* buffer empty, and the buffer changes in no other way than by such a step,
\* by a character appended in Insert mode or by its last character removed in
\* Insert mode.
C4_BufferClearedOnEntry ==
    [][ /\ (mode' # mode /\ mode' \in {"Insert", "Command"}) => query' = <<>>
        /\ query' # query =>
              \/ mode' # mode /\ mode' \in {"Insert", "Command"} /\ query' = <<>>
              \/ /\ mode = "Insert" /\ mode' = "Insert"
                 /\ \/ \E c \in KeyChars \ {":"} : query' = Append(query, c)
                    \/ query # <<>> /\ query' = SubSeq(query, 1, Len(query) - 1)
      ]_vars

\* C4 witness: Command mode entered after a submission and some scrolling
C4_Witness ==
    /\ pc = "loop"
    /\ mode = "Command"
    /\ query = <<>>
    /\ results # <<>>
    /\ scroll > 0

\* C5: the key ':' received in Insert mode gives mode Command and an empty
\* buffer, whatever the buffer held; ':' is not appended, results and scroll
\* stay as they are.
C5_ColonEntersCommand ==
    [][ (pc = "loop" /\ mode = "Insert" /\ KeyEvent(Char(":"))) =>
            /\ mode' = "Command"
            /\ query' = <<>>
            /\ results' = results
            /\ scroll' = scroll ]_vars

\* C5 witness: Command mode with results of an earlier submission and the
\* buffer empty
C5_Witness ==
    /\ pc = "loop"
    /\ mode = "Command"
    /\ query = <<>>
    /\ Elements(results) = <<"'q' found in ./a-b">>
    /\ scroll = 0

\* C6: Enter in Insert mode with a buffer that is not empty replaces results
\* by the lookup of the buffer and sets scroll to 0, mode and buffer stay; with
\* an empty buffer it changes nothing.
C6_EnterSubmits ==
    [][ (pc = "loop" /\ mode = "Insert" /\ KeyEvent(Key("Enter"))) =>
            IF query # <<>>
            THEN /\ Elements(results') = Elements(search(index, query))
                 /\ scroll' = 0
                 /\ mode' = "Insert"
                 /\ query' = query
            ELSE UNCHANGED <<mode, query, results, scroll>> ]_vars

\* C6 witness: Insert mode right after the buffer "I" was submitted
C6_Witness ==
    /\ pc = "loop"
    /\ mode = "Insert"
    /\ query = <<"I">>
    /\ Len(Elements(results)) = 3
    /\ Elements(results) = Elements(search(index, query))
    /\ scroll = 0

\* C7: the session ends only by the key 'q' received in Command or Safe mode,
\* every 'q' received in Command or Safe mode ends it, and no key received in
\* Insert mode ends it.
C7_EndsOnlyOnQuit ==
    [][ /\ (pc = "loop" /\ pc' # "loop") =>
              (mode \in {"Command", "Safe"} /\ KeyEvent(Char("q")))
        /\ (pc = "loop" /\ mode \in {"Command", "Safe"} /\ KeyEvent(Char("q"))) =>
              pc' = "exited"
        /\ (pc = "loop" /\ mode = "Insert") => pc' = "loop" ]_vars

\* err holds one diagnostic for every unreadable file of the tree and no other
OneDiagnosticEach(err, t) ==
    /\ Len(err) = Cardinality(Unreadable(t))
    /\ \A p \in Unreadable(t) : \E i \in 1..Len(err) : err[i].path = display(p)

\* idx holds the words of the readable files of the tree and nothing else
OnlyReadableWords(idx, t) ==
    /\ DOMAIN idx = WordsOf(t)
    /\ \A w \in DOMAIN idx : Elements(idx[w]) = ExpectedRefs(t, w)

\* C8: in both builds a file that cannot be read as text adds nothing to the
\* index, the build goes on with the other files, and one diagnostic is written
\* per skipped file.
C8_SkipWithDiagnostic ==
    /\ pc = "loop" =>
          OnlyReadableWords(index, tree) /\ OneDiagnosticEach(stderr, tree)
    /\ server_pc = "serving" =>
          OnlyReadableWords(engine_index, tree) /\ OneDiagnosticEach(server_stderr, tree)

\* C9: the index SearchEngine::new has built equals the index a run of it
\* builds from any other order in which the walk can yield the same files:
\* same keys, same file names in the same order under every key.
C9_Deterministic ==
    server_pc = "serving" =>
        \A w \in WalkOrders(tree) : SearchEngine_new(tree, w) = engine_index

\* C9 witness: a finished index with a key whose list names two files
C9_Witness ==
    /\ server_pc = "serving"
    /\ \E w \in DOMAIN engine_index :
          Cardinality({engine_index[w][i].item : i \in 1..Len(engine_index[w])}) >= 2

\* C10: a query whose lowercase form is no index key, the empty query
\* included, is answered with exactly one line,
\* "'<lowercased query>' not found in any file".
C10_MissSentinel ==
    (server_pc = "serving" /\ request # <<>>) =>
        LET q == to_lowercase(request[1])
        IN  q \notin DOMAIN engine_index =>
                /\ response # <<>>
                /\ Elements(response[1]) = << "'" \o Str(q) \o "' not found in any file" >>

\* C10 witness: the empty query sent to an index that has keys
C10_Witness ==
    /\ server_pc = "serving"
    /\ DOMAIN engine_index # {}
    /\ request = << <<>> >>
    /\ response # <<>>
    /\ Elements(response[1]) = << "'' not found in any file" >>

\* the word the index build makes of a token: trimmed, then lowercased
normalize(s) == to_lowercase(trim_matches(s))

\* C11: every key of the index of either build is the word that normalising a
\* token yields, and normalising it again yields the same word: it is a fixed
\* point of normalize, is not empty, is its own lowercase form and neither
\* starts nor ends with a character that is not alphanumeric.
C11_NormalizeIdempotent ==
    \A w \in DOMAIN index \cup DOMAIN engine_index :
        /\ \E tok \in TokensOf(tree) : w = normalize(tok)
        /\ normalize(w) = w
        /\ w # <<>>
        /\ to_lowercase(w) = w
        /\ is_alphanumeric(w[1]) /\ is_alphanumeric(w[Len(w)])

\* C12: the answer to a request is fixed by the lowercase form of the query
\* alone, which is looked up as it stands: requests with the same lowercase
\* form get the same answer, and a query that the build would trim (it starts
\* or ends with punctuation or whitespace) is not answered with the hits of
\* the trimmed word.
C12_LowercaseOnly ==
    (server_pc = "serving" /\ request # <<>>) =>
        LET q == request[1]
            lq == to_lowercase(q)
            nq == normalize(q)
        IN  /\ response # <<>>
            /\ response[1] = IF lq \in DOMAIN engine_index
                              THEN found_lines(lq, engine_index[lq])
                              ELSE Repeat(NotFoundLine(lq), 1)
            /\ \A q2 \in Requests :
                  to_lowercase(q2) = lq => search(engine_index, q2) = response[1]
            /\ (lq # nq /\ nq \in DOMAIN engine_index) =>
                  response[1] # found_lines(nq, engine_index[nq])

\* C12 witness: the query "i," sent to an index that holds the key "i" is
\* answered with the miss line for "i,"
C12_Witness ==
    /\ server_pc = "serving"
    /\ <<"i">> \in DOMAIN engine_index
    /\ request = << <<"i", ",">> >>
    /\ response # <<>>
    /\ Elements(response[1]) = << "'i,' not found in any file" >>

\* C13: once a build has returned, its index never changes again, whatever
\* requests are in flight side by side and whatever keys the session receives:
\* the index of the server is the value SearchEngine::new returned and stays
\* it, and every answer is the answer one lookup of that query alone gives on
\* that index.
C13_IndexImmutable ==
    [][ /\ (server_pc = "index" /\ server_pc' = "serving") =>
              \A w \in WalkOrders(tree) : engine_index' = SearchEngine_new(tree, w)
        /\ server_pc = "serving" => engine_index' = engine_index
        /\ pc = "loop" => index' = index
        /\ \A h \in Handlers :
              tasks'[h].pc = "replied" =>
                  tasks'[h].results = search(engine_index, tasks'[h].q)
      ]_vars

\* C13 witness: one request answered with hits while another is in flight and
\* the session has submitted a query
C13_Witness ==
    /\ tasks["worker-1"].pc = "replied"
    /\ tasks["worker-1"].q = <<"i">>
    /\ vec_len(tasks["worker-1"].results) = 3
    /\ tasks["worker-2"].pc = "called"
    /\ tasks["worker-2"].q = <<"i", ",">>
    /\ pc = "loop"
    /\ results # <<>>

\* C14: the index the terminal program has built when its session starts is
\* the index SearchEngine::new returns for the same tree, the session leaves it
\* as it is, and Enter in Insert mode with a buffer that is not empty installs
\* the lines SearchEngine::search returns for the buffer on that index, in the
\* same order.
C14_SameAsEngine ==
    [][ /\ (pc = "index" /\ pc' # "index") =>
              \A w \in WalkOrders(tree) : index' = SearchEngine_new(tree, w)
        /\ pc = "loop" => index' = index
        /\ (pc = "loop" /\ mode = "Insert" /\ query # <<>> /\ KeyEvent(Key("Enter"))) =>
              results' = search(index, query)
      ]_vars

\* C14 witness: the buffer "q" submitted and answered with the one line the
\* engine gives for it
C14_Witness ==
    /\ pc = "loop"
    /\ mode = "Insert"
    /\ query = <<"q">>
    /\ \E w \in WalkOrders(tree) : results = search(SearchEngine_new(tree, w), query)
    /\ Elements(results) = << "'q' found in ./a-b" >>

\* the one value a key event can leave in scroll is v
ScrollAfter(key, v) ==
    /\ ENABLED (KeyEvent(key) /\ scroll' = v)
    /\ ~ENABLED (KeyEvent(key) /\ scroll' # v)

\* C15: in Command or Safe mode the key 'j' or Down sets scroll to
\* min(scroll + 1, max(0, len(results) - 1)) and the key 'k' or Up sets it to
\* max(scroll - 1, 0), however long results is.
C15_ScrollArithmetic ==
    (pc = "loop" /\ mode \in {"Command", "Safe"}) =>
        /\ \A key \in {Key("Down"), Char("j")} :
              ScrollAfter(key, Min({scroll + 1, Max({0, vec_len(results) - 1})}))
        /\ \A key \in {Key("Up"), Char("k")} :
              ScrollAfter(key, Max({scroll - 1, 0}))

\* the rows of the transition table: the (mode, event) pairs it gives an effect
HasRow(m, k) ==
    \/ m = "Insert" /\ k.code \in {"Char", "Backspace", "Enter"}
    \/ m = "Command" /\ k \in {Char("q"), Char("i"), Char("s")}
    \/ m = "Safe" /\ k \in {Char("q"), Char("i"), Char("c")}
    \/ m \in {"Command", "Safe"} /\ k \in {Char("j"), Key("Down"), Char("k"), Key("Up")}

\* C16: a scroll key in Command or Safe mode changes nothing but scroll; the
\* keys 'i', 's', 'c' and ':' change neither results nor scroll; a character
\* or Backspace in Insert mode changes nothing but the buffer; a key received
\* in a mode in which the table has no row for it changes neither mode, buffer,
\* results nor scroll.
C16_Frame ==
    [][ pc = "loop" =>
          /\ \A key \in {Char("j"), Key("Down"), Char("k"), Key("Up")} :
                (mode \in {"Command", "Safe"} /\ KeyEvent(key)) =>
                    UNCHANGED <<mode, query, results>>
          /\ \A key \in {Char("i"), Char("s"), Char("c"), Char(":")} :
                KeyEvent(key) => UNCHANGED <<results, scroll>>
          /\ \A key \in ({Char(c) : c \in KeyChars \ {":"}} \cup {Key("Backspace")}) :
                (mode = "Insert" /\ KeyEvent(key)) => UNCHANGED <<mode, results, scroll>>
          /\ \A key \in Keys :
                (~HasRow(mode, key) /\ KeyEvent(key)) => UNCHANGED session_vars
      ]_vars

\* C16 witness: Insert mode with results scrolled to the last line and the
\* scroll keys 'j' and 'k' typed into the buffer
C16_Witness ==
    /\ pc = "loop"
    /\ mode = "Insert"
    /\ query = <<"j", "k">>
    /\ vec_len(results) = 3
    /\ scroll = 2

\* the key event `key` can be received and every way of receiving it ends in Q
Leads(key, Q(_, _)) ==
    /\ ENABLED (KeyEvent(key) /\ Q(pc', mode'))
    /\ ~ENABLED (KeyEvent(key) /\ ~Q(pc', mode'))

Exited(p, m) == p = "exited"

InCommand(p, m) == p = "loop" /\ m = "Command"

\* C17: in every state of a running session the end is at most two keys away:
\* in Command or Safe mode the key 'q' ends the session, and in Insert mode
\* the key ':' leads to a running session in Command mode, where 'q' ends it,
\* whatever the buffer, results and scroll are.
C17_QuitWithinTwo ==
    pc = "loop" =>
        IF mode \in {"Command", "Safe"}
        THEN Leads(Char("q"), Exited)
        ELSE Leads(Char(":"), InCommand)

\* C17 witness: Insert mode with 'q' typed into the buffer, results on display
\* and the view scrolled
C17_Witness ==
    /\ pc = "loop"
    /\ mode = "Insert"
    /\ query = <<"q">>
    /\ results # <<>>
    /\ scroll = 1

\* C18: whenever the mode is Command or Safe the query buffer is empty.
C18_BufferEmptyOutsideInsert ==
    mode \in {"Command", "Safe"} => query = <<>>

\* C18 witness: Safe mode, from where 'c' leads to Command without clearing
\* the buffer, after a submission and scrolling to the last result
C18_Witness ==
    /\ pc = "loop"
    /\ mode = "Safe"
    /\ query = <<>>
    /\ vec_len(results) = 3
    /\ scroll = 2

\* C19: no arithmetic on the u16 scroll overflows: no overflow check has
\* stopped the program, the scroll + 1 that every draw evaluates for the status
\* bar fits a u16, and so does the scroll += 1 of the scroll-down arm whenever
\* its guard lets it run.
C19_NoOverflow ==
    /\ pc # "panicked"
    /\ pc = "loop" => scroll + 1 < U16
    /\ (pc = "loop" /\ scroll < ScrollBound(vec_len(results))) => scroll + 1 < U16

\* C20: results is empty when the session starts and changes only by Enter in
\* Insert mode with a buffer that is not empty, which replaces it by the
\* lookup of that buffer, a list that is never empty; so results is empty
\* exactly as long as nothing was submitted and is the lookup of the last
\* submission afterwards, whatever else happens to buffer, mode and scroll.
C20_ResultsOfLastSubmission ==
    /\ results = <<>>
    /\ [][ LET submit == /\ pc = "loop"
                         /\ mode = "Insert"
                         /\ query # <<>>
                         /\ KeyEvent(Key("Enter"))
           IN  /\ \A w \in DOMAIN index : index[w] # <<>>
               /\ submit => (results' = search(index, query) /\ results' # <<>>)
               /\ ~submit => results' = results
         ]_vars

\* C20 witness: the miss line of the submission "ii" still on display after
\* the buffer was emptied again
C20_Witness ==
    /\ pc = "loop"
    /\ mode = "Insert"
    /\ query = <<>>
    /\ Elements(results) = << "'ii' not found in any file" >>

====
